---- MODULE Spec2Model ----
(***************************************************************************)
(* GF(2^m) arithmetic of GaloisField.py: the table constructor, the        *)
(* element operations, the polynomial algebra over the field and the       *)
(* root/structure analysis.                                                *)
(*                                                                         *)
(* A polynomial (numpy array) is a sequence of coefficients, low power     *)
(* first: index k of the sequence holds the coefficient of X^(k-1).        *)
(* A field instance is a record [p, elements]: the defining polynomial     *)
(* (self._p) and the table (self._cachedPolyElements).                     *)
(* A call that returns is Ok(value); a call that raises is Raise(name).    *)
(***************************************************************************)
EXTENDS Integers, Sequences, FiniteSets, TLC

VARIABLES
    pc,            \* position of the running operation
    op,            \* name of the operation that was called
    self,          \* the field instance the operation runs on: [p, elements]
    args,          \* the arguments the operation was called with
    ret,           \* what the operation returned (Ok) or raised (Raise)
    gf_p,          \* constructGF: p
    gf_elements,   \* constructGF: elements
    gf_i,          \* constructGF: loop index i
    dm_a,          \* divmodPoly: a
    dm_b,          \* divmodPoly: b
    dm_q,          \* divmodPoly: q
    dm_caller,     \* who called divmodPoly
    cr_root,       \* conjugateRoots: root
    cr_l,          \* conjugateRoots: l
    cr_roots,      \* conjugateRoots: roots
    cr_caller,     \* who called conjugateRoots
    rm_result,     \* removeConjugateRoots: result (the same list object as roots)
    rm_idx,        \* removeConjugateRoots: position of the list iterator
    cg_groups,     \* conjugateRootGroups: groups
    cg_i,          \* conjugateRootGroups: loop index i
    ir_idx         \* irreducible: position of `for factorPoly in self.elementsAsPoly()`

vars == <<pc, op, self, args, ret, gf_p, gf_elements, gf_i, dm_a, dm_b, dm_q, dm_caller,
          cr_root, cr_l, cr_roots, cr_caller, rm_result, rm_idx, cg_groups, cg_i, ir_idx>>

gfVars   == <<gf_p, gf_elements, gf_i>>
dmVars   == <<dm_a, dm_b, dm_q, dm_caller>>
crVars   == <<cr_root, cr_l, cr_roots, cr_caller>>
rmVars   == <<rm_result, rm_idx>>
cgVars   == <<cg_groups, cg_i>>

\* ------------------------------------------------------------------ bounds

\* Largest degree of a defining polynomial handed to constructGF.
MaxM == 4
\* Largest degree m of the fields the element operations run on.
MaxElemM == 3
\* Arbitrary integer operands range over -MaxInt .. q + MaxInt.
MaxInt == 3
\* Largest exponent handed to powElement.
MaxExponent == 4
\* Largest degree m of the fields the polynomial algebra runs on.
MaxPolyM == 2
\* Longest coefficient sequence handed to the polynomial operations.
MaxLen == 2
\* Largest degree m of the fields the root analysis runs on.
MaxRootM == 3
\* Longest list handed to removeConjugateRoots.
MaxRoots == 2
\* Number of non-canonical integers past q-1 handed to conjugateRoots.
MaxExtra == 2
\* Passes of the conjugateRoots loop the model follows past m.
MaxPass == 2
\* Largest degree m of the fields irreducible() runs on.
MaxIrrM == 3
\* Longest 0/1 coefficient sequence handed to irreducible().
MaxIrrLen == 4

\* ------------------------------------------------------------- call results

Ok(v) == [ok |-> TRUE, val |-> v]
Raise(e) == [ok |-> FALSE, err |-> e]

None == [ok |-> FALSE, err |-> "none"]

\* ------------------------------------------------------ Python floats (INF)

\* The exponent of an element is a Python int or the float -INF; sums,
\* differences and products of them are ints, +-INF or NaN.
Fin(n) == <<"fin", n>>
INF == <<"inf", 1>>
NegINF == <<"inf", -1>>
NaN == <<"nan", 0>>

IsFin(x) == x[1] = "fin"
IsInf(x) == x[1] = "inf"

fneg(x) == IF IsFin(x) THEN Fin(-x[2]) ELSE IF IsInf(x) THEN <<"inf", -x[2]>> ELSE NaN

\* x + y in IEEE arithmetic: inf + (-inf) is NaN.
fadd(x, y) ==
    IF x = NaN \/ y = NaN THEN NaN
    ELSE IF IsFin(x) /\ IsFin(y) THEN Fin(x[2] + y[2])
    ELSE IF IsFin(x) THEN y
    ELSE IF IsFin(y) THEN x
    ELSE IF x = y THEN x ELSE NaN

fsub(x, y) == fadd(x, fneg(y))

\* x * n for an int n: inf * 0 is NaN.
fmul(x, n) ==
    IF x = NaN THEN NaN
    ELSE IF IsFin(x) THEN Fin(x[2] * n)
    ELSE IF n = 0 THEN NaN
    ELSE IF n > 0 THEN x ELSE fneg(x)

\* ---------------------------------------------------- polynomial utilities

Max(x, y) == IF x >= y THEN x ELSE y
Min(x, y) == IF x <= y THEN x ELSE y

RECURSIVE Pow2(_)
Pow2(n) == IF n = 0 THEN 1 ELSE 2 * Pow2(n - 1)

Zeros(n) == [k \in 1..n |-> 0]

\* s with s[k] = v (arrays are indexed from 1 here).
SetAt(s, k, v) == [j \in 1..Len(s) |-> IF j = k THEN v ELSE s[j]]

\* np.poly1d(...).order: the highest power with a non-zero coefficient, and 0
\* for the zero polynomial and for the empty array.
degree(p) ==
    LET nz == {k \in 1..Len(p) : p[k] # 0}
    IN  IF nz = {} THEN 0 ELSE (CHOOSE k \in nz : \A j \in nz : j <= k) - 1

\* X^i: i zeros and a one.
X(i) == [k \in 1..(i + 1) |-> IF k = i + 1 THEN 1 ELSE 0]

\* poly[:degree(poly) + 1]
Trim(poly) == SubSeq(poly, 1, Min(Len(poly), degree(poly) + 1))

\* np.pad(poly, (0, m - poly.size), 'constant', constant_values = 0)
Pad(poly, m) == poly \o Zeros(m - Len(poly))

\* np.count_nonzero(p)
count_nonzero(p) == Cardinality({k \in 1..Len(p) : p[k] # 0})

\* ------------------------------------------------------- GaloisField engine

q(F) == Len(F.elements)

m(F) == degree(F.p)

elementsAsPoly(F) == F.elements

element(F, a) ==
    IF a = 0 THEN 0
    ELSE LET exp_a == (a - 1) % (q(F) - 1)
         IN  exp_a + 1

elementToExp(F, a) ==
    LET c == element(F, a)
    IN  IF c = 0 THEN NegINF ELSE Fin(c - 1)

\* element(NaN) ends in int(NaN), which raises ValueError.
elementFromExp(F, exp_a) ==
    IF exp_a = INF \/ exp_a = NegINF THEN Ok(0)
    ELSE IF exp_a = NaN THEN Raise("ValueError")
    ELSE Ok(element(F, exp_a[2] + 1))

elementToPoly(F, a, size_m) ==
    LET poly_a == elementsAsPoly(F)[element(F, a) + 1]
    IN  IF size_m THEN Pad(poly_a, m(F)) ELSE poly_a

\* The first index whose trimmed vector equals the trimmed argument; the
\* asserts raise AssertionError.
elementFromPoly(F, poly_a) ==
    IF degree(poly_a) > degree(F.p) THEN Raise("AssertionError")
    ELSE LET t == Trim(poly_a)
             hits == {k \in 1..Len(elementsAsPoly(F)) : Trim(elementsAsPoly(F)[k]) = t}
         IN  IF hits = {} THEN Raise("AssertionError")
             ELSE Ok((CHOOSE k \in hits : \A j \in hits : k <= j) - 1)

addElements(F, a, b) ==
    LET poly_a == elementToPoly(F, a, TRUE)
        poly_b == elementToPoly(F, b, TRUE)
        poly_sum == [k \in 1..Len(poly_a) |-> (poly_a[k] + poly_b[k]) % 2]
    IN  elementFromPoly(F, poly_sum)

multElements(F, a, b) ==
    LET exp_a == elementToExp(F, a)
        exp_b == elementToExp(F, b)
        exp_product == fadd(exp_a, exp_b)
    IN  elementFromExp(F, exp_product)

divElements(F, a, b) ==
    LET exp_a == elementToExp(F, a)
        exp_b == elementToExp(F, b)
        exp_q == fsub(exp_a, exp_b)
    IN  elementFromExp(F, exp_q)

powElement(F, a, exponent) ==
    LET exp_a == elementToExp(F, a)
        exp_power == fmul(exp_a, exponent)
    IN  elementFromExp(F, exp_power)

\* ------------------------------------------------- field-polynomial algebra

\* The first failed call among the results rs (a sequence), or None.
FirstRaise(rs) ==
    LET bad == {k \in 1..Len(rs) : ~rs[k].ok}
    IN  IF bad = {} THEN None ELSE rs[CHOOSE k \in bad : \A j \in bad : k <= j]

\* summ[i] for i in range(0, summ.size); reading b[i] past the end of b raises
\* IndexError.
addPolyCoeff(F, a, b, k) ==
    IF k > Len(a) THEN (IF k > Len(b) THEN Raise("IndexError") ELSE Ok(b[k]))
    ELSE IF k > Len(b) THEN Ok(a[k])
    ELSE addElements(F, a[k], b[k])

addPoly(F, a, b) ==
    LET summ_degree == Max(degree(a), degree(b))
        summ == [k \in 1..(summ_degree + 1) |-> addPolyCoeff(F, a, b, k)]
    IN  IF FirstRaise(summ).err # "none" THEN FirstRaise(summ)
        ELSE Ok([k \in 1..(summ_degree + 1) |-> summ[k].val])

\* The double loop of multPoly from its n-th pair (i, j) on; a[i] and b[j] past
\* the end of an (empty) array raise IndexError.
RECURSIVE multPolyLoop(_, _, _, _, _)
multPolyLoop(F, a, b, product, n) ==
    LET cols == degree(b) + 1
        i == n \div cols
        j == n % cols
    IN  IF n >= (degree(a) + 1) * cols THEN Ok(product)
        ELSE IF i + 1 > Len(a) \/ j + 1 > Len(b) THEN Raise("IndexError")
        ELSE LET product_tmp == multElements(F, a[i + 1], b[j + 1])
             IN  IF ~product_tmp.ok THEN product_tmp
                 ELSE LET s == addElements(F, product[i + j + 1], product_tmp.val)
                      IN  IF ~s.ok THEN s
                          ELSE multPolyLoop(F, a, b,
                                            SetAt(product, i + j + 1, s.val), n + 1)

multPoly(F, a, b) ==
    LET product_max_degree == degree(a) + degree(b)
        r == multPolyLoop(F, a, b, Zeros(product_max_degree + 1), 0)
    IN  IF r.ok THEN Ok(Trim(r.val)) ELSE r

\* One pass of the loop `while degree(a) >= degree(b)` of divmodPoly: the new
\* a and q, or what the pass raised.
divmodPass(F, a, b, qq) ==
    LET exp_a == degree(a)
        exp_b == degree(b)
        coeff_element_a == a[exp_a + 1]
        coeff_element_b == b[exp_b + 1]
        d == divElements(F, coeff_element_a, coeff_element_b)
    IN  IF ~d.ok THEN d
        ELSE LET multiplier == SetAt(Zeros(exp_a - exp_b + 1), exp_a - exp_b + 1, d.val)
                 subtrahend == multPoly(F, b, multiplier)
             IN  IF ~subtrahend.ok THEN subtrahend
                 ELSE LET na == addPoly(F, a, subtrahend.val)
                          nq == addPoly(F, qq, multiplier)
                      IN  IF ~na.ok THEN na
                          ELSE IF ~nq.ok THEN nq
                          ELSE Ok([a |-> na.val, q |-> nq.val])

\* --------------------------------------------------- field table constructor

\* GF2 = GaloisField(): the field of p = 1 + X, whose table is the special
\* case m == 1 of constructGF.
GF2 == [p |-> <<1, 1>>, elements |-> << <<0>>, <<1>> >>]

\* a_high cut one coefficient short: p[:m - 1].
a_high_short(p) == SubSeq(p, 1, degree(p) - 1)

\* a_high = p[:m]
a_high(p) == SubSeq(p, 1, degree(p))

\* for j in range(0, quotient): poly = GF2.multPoly(poly, a_high)
RECURSIVE multAHigh(_, _, _)
multAHigh(poly, ah, quotient) ==
    IF quotient = 0 THEN poly
    ELSE multAHigh(multPoly(GF2, poly, ah).val, ah, quotient - 1)

\* The while body reading the table one entry too low: elements[degree(poly)].
reducePass_low(poly, elements) ==
    LET s == addPoly(GF2, poly, elements[degree(poly) + 1]).val
    IN  SubSeq(s, 1, Len(s) - 1)

\* One pass of `while degree(poly) >= m`: add the table entry of the leading
\* power and drop the last coefficient.
reducePass(poly, elements) ==
    LET s == addPoly(GF2, poly, elements[degree(poly) + 1 + 1]).val
    IN  SubSeq(s, 1, Len(s) - 1)

RECURSIVE reduceLoop(_, _, _)
reduceLoop(poly, elements, mm) ==
    IF degree(poly) >= mm THEN reduceLoop(reducePass(poly, elements), elements, mm)
    ELSE poly

\* The indices (as the code counts them, from 0) that the passes of
\* `while degree(poly) >= m` read from `elements`, in order. The walk ends at
\* the first index the table does not hold, where the code would raise.
RECURSIVE reduceReads(_, _, _)
reduceReads(poly, elements, mm) ==
    IF degree(poly) >= mm
    THEN LET idx == degree(poly) + 1
         IN  IF idx >= Len(elements) THEN <<idx>>
             ELSE <<idx>> \o reduceReads(reducePass(poly, elements), elements, mm)
    ELSE <<>>

\* The indices of `elements` read while the entry of index i is built.
constructReads(p, elements, i) ==
    LET mm == degree(p)
        exp == IF i = 0 THEN <<0>> ELSE X(i - 1)
    IN  IF degree(exp) >= mm
        THEN LET quotient == degree(exp) \div mm
                 remainder == degree(exp) % mm
             IN  reduceReads(multAHigh(X(remainder), a_high(p), quotient),
                             elements, mm)
        ELSE <<>>

\* The body of `for i in range(0, 2**m)`: the entry appended at index i.
constructEntry(p, elements, i) ==
    LET mm == degree(p)
        exp == IF i = 0 THEN <<0>> ELSE X(i - 1)
        poly == IF degree(exp) >= mm
                THEN LET quotient == degree(exp) \div mm
                         remainder == degree(exp) % mm
                     IN  reduceLoop(multAHigh(X(remainder), a_high(p), quotient),
                                    elements, mm)
                ELSE exp
    IN  Pad(Trim(poly), mm)

RECURSIVE constructLoop(_, _, _)
constructLoop(p, elements, i) ==
    IF i < Pow2(degree(p))
    THEN constructLoop(p, Append(elements, constructEntry(p, elements, i)), i + 1)
    ELSE elements

constructGF(p) ==
    IF degree(p) = 1 THEN << <<0>>, <<1>> >>
    ELSE constructLoop(p, <<>>, 0)

\* GaloisField.__init__
GaloisField(p) == [p |-> p, elements |-> constructGF(p)]

\* ================================================================ constructGF

\* The 0/1 coefficient sequences of the given lengths.
RECURSIVE BinSeqs(_)
BinSeqs(n) ==
    IF n = 0 THEN {<<>>}
    ELSE {Append(s, c) : s \in BinSeqs(n - 1), c \in {0, 1}}

\* The polynomials over GF(2) of degree exactly d.
BinPolysOfDegree(d) == {s \in BinSeqs(d + 1) : s[d + 1] = 1}

\* The defining polynomials constructGF is called with: every degree 1..MaxM.
DefiningPolys == UNION {BinPolysOfDegree(d) : d \in 1..MaxM}

\* Values of the variables an operation does not use.
IdleGF == gf_p = <<>> /\ gf_elements = <<>> /\ gf_i = 0
IdleDM == dm_a = <<>> /\ dm_b = <<>> /\ dm_q = <<>> /\ dm_caller = "none"
IdleCR == cr_root = 0 /\ cr_l = 0 /\ cr_roots = <<>> /\ cr_caller = "none"
IdleRM == rm_result = <<>> /\ rm_idx = 0
IdleCG == cg_groups = <<>> /\ cg_i = 0
IdleIR == ir_idx = 0

InitConstruct ==
    /\ gf_p \in DefiningPolys
    /\ gf_elements = <<>>
    /\ gf_i = 0
    /\ pc = "constructGF"
    /\ op = "constructGF"
    /\ self = GF2
    /\ args = <<gf_p>>
    /\ ret = None
    /\ IdleDM /\ IdleCR /\ IdleRM /\ IdleCG /\ IdleIR

\* if m == 1: return [np.array([0]), np.array([1])]
ConstructSpecial ==
    /\ pc = "constructGF"
    /\ degree(gf_p) = 1
    /\ gf_elements' = << <<0>>, <<1>> >>
    /\ ret' = Ok(gf_elements')
    /\ pc' = "done"
    /\ UNCHANGED <<op, self, args, gf_p, gf_i, dmVars, crVars, rmVars, cgVars, ir_idx>>

\* One pass of `for i in range(0, 2**m)`.
ConstructFor ==
    /\ pc = "constructGF"
    /\ degree(gf_p) # 1
    /\ gf_i < Pow2(degree(gf_p))
    /\ gf_elements' = Append(gf_elements, constructEntry(gf_p, gf_elements, gf_i))
    /\ gf_i' = gf_i + 1
    /\ UNCHANGED <<pc, op, self, args, ret, gf_p, dmVars, crVars, rmVars, cgVars, ir_idx>>

\* return elements
ConstructReturn ==
    /\ pc = "constructGF"
    /\ degree(gf_p) # 1
    /\ gf_i >= Pow2(degree(gf_p))
    /\ ret' = Ok(gf_elements)
    /\ pc' = "done"
    /\ UNCHANGED <<op, self, args, gfVars, dmVars, crVars, rmVars, cgVars, ir_idx>>

NextConstruct == ConstructSpecial \/ ConstructFor \/ ConstructReturn

SpecConstruct == InitConstruct /\ [][NextConstruct]_vars

\* ---- polynomials over GF(2), by the textbook definitions

\* X * v modulo p, for v of width degree(p): shift up and, when the coefficient
\* of X^(m-1) was set, subtract p.
TimesXMod(p, v) ==
    LET mm == degree(p)
        sh == [k \in 1..mm |-> IF k = 1 THEN 0 ELSE v[k - 1]]
    IN  IF v[mm] = 1 THEN [k \in 1..mm |-> (sh[k] + p[k]) % 2] ELSE sh

\* X^k modulo p as a vector of width degree(p).
RECURSIVE XPowMod(_, _)
XPowMod(p, k) ==
    IF k = 0 THEN [j \in 1..degree(p) |-> IF j = 1 THEN 1 ELSE 0]
    ELSE TimesXMod(p, XPowMod(p, k - 1))

\* p is primitive: X has multiplicative order 2^m - 1 modulo p.
IsPrimitivePoly(p) ==
    LET n == Pow2(degree(p)) - 1
    IN  /\ XPowMod(p, n) = XPowMod(p, 0)
        /\ \A k \in 1..(n - 1) : XPowMod(p, k) # XPowMod(p, 0)

\* The remainder of a modulo d over GF(2) (d # 0), both trimmed.
RECURSIVE RemGF2(_, _)
RemGF2(a, d) ==
    IF Len(a) < Len(d) \/ a = <<0>> THEN a
    ELSE LET sft == Len(a) - Len(d)
             sub == [k \in 1..Len(a) |->
                        IF k > sft THEN (a[k] + d[k - sft]) % 2 ELSE a[k]]
         IN  RemGF2(Trim(sub), d)

\* p has no divisor of degree strictly between 0 and degree(p).
IsIrreduciblePoly(p) ==
    \A d \in 1..(degree(p) - 1) :
        \A f \in BinPolysOfDegree(d) : RemGF2(Trim(p), f) # <<0>>

\* The table has 2^m pairwise distinct entries of width m, entry 0 all-zero and
\* entry 1 equal to [1,0,...,0].
TableWellFormed(p, elements) ==
    LET mm == degree(p)
    IN  /\ Len(elements) = Pow2(mm)
        /\ \A j, k \in 1..Len(elements) : j # k => elements[j] # elements[k]
        /\ \A k \in 1..Len(elements) : Len(elements[k]) = mm
        /\ elements[1] = Zeros(mm)
        /\ elements[2] = [k \in 1..mm |-> IF k = 1 THEN 1 ELSE 0]

ConstructDone == pc = "done" /\ op = "constructGF" /\ ret.ok

\* C4 (as stated): for every defining polynomial of degree m >= 1 that is
\* primitive or merely irreducible, the table returned by constructGF has 2^m
\* pairwise distinct entries of width m, entry 0 all-zero, entry 1 = [1,0,...,0].
C4_Original ==
    (ConstructDone /\ IsIrreduciblePoly(gf_p)) => TableWellFormed(gf_p, ret.val)

\* C4 (amended): for every primitive defining polynomial of degree m >= 1 the
\* table returned by constructGF has 2^m pairwise distinct entries of width m,
\* entry 0 all-zero and entry 1 = [1,0,...,0].
C4_Theorem ==
    (ConstructDone /\ IsPrimitivePoly(gf_p)) => TableWellFormed(gf_p, ret.val)

\* constructGF has returned the table of a primitive polynomial of degree 4.
C4_Witness ==
    ConstructDone /\ degree(gf_p) = 4 /\ IsPrimitivePoly(gf_p) /\ Len(ret.val) = 16

\* The vector rep. column of the module docstring: GF(16) generated by
\* 1 + X + X^4, rows in integer-representation order.
DocstringTable ==
    << <<0, 0, 0, 0>>, <<1, 0, 0, 0>>, <<0, 1, 0, 0>>, <<0, 0, 1, 0>>,
       <<0, 0, 0, 1>>, <<1, 1, 0, 0>>, <<0, 1, 1, 0>>, <<0, 0, 1, 1>>,
       <<1, 1, 0, 1>>, <<1, 0, 1, 0>>, <<0, 1, 0, 1>>, <<1, 1, 1, 0>>,
       <<0, 1, 1, 1>>, <<1, 1, 1, 1>>, <<1, 0, 1, 1>>, <<1, 0, 0, 1>> >>

\* The for loop of constructGF is running (m # 1, nothing returned yet).
ConstructLooping == pc = "constructGF" /\ degree(gf_p) # 1

\* C11: constructGF builds the table in strictly increasing index order: pass
\* i of the loop finds exactly the entries 0..i-1 in the table, every
\* reduction step `elements[degree(poly) + 1]` of that pass reads an index
\* smaller than i, every entry of index i >= 1 built so far is the coefficient
\* vector of X^(i-1) modulo p over GF(2), and for p = 1 + X + X^4 the returned
\* table is the 16-row table of the module docstring.
C11_Theorem ==
    /\ ConstructLooping => Len(gf_elements) = gf_i
    /\ (ConstructLooping /\ gf_i < Pow2(degree(gf_p))) =>
           LET reads == constructReads(gf_p, gf_elements, gf_i)
           IN  \A k \in 1..Len(reads) : reads[k] < gf_i
    /\ \A i \in 1..(Len(gf_elements) - 1) :
           gf_elements[i + 1] = XPowMod(gf_p, i - 1)
    /\ (ConstructDone /\ gf_p = <<1, 1, 0, 0, 1>>) => ret.val = DocstringTable

\* constructGF has returned the table of 1 + X + X^4 and, on the way, a pass
\* of the loop went through the reduction step, reading an earlier entry.
C11_Witness ==
    /\ ConstructDone
    /\ gf_p = <<1, 1, 0, 0, 1>>
    /\ Len(ret.val) = 16
    /\ \E i \in 1..15 :
           constructReads(gf_p, SubSeq(ret.val, 1, i), i) # <<>>

\* ========================================================= element operations

\* The primitive polynomials of degree 1..M: the polynomials a field is
\* constructed from.
PrimitivePolys(M) ==
    {p \in UNION {BinPolysOfDegree(d) : d \in 1..M} : IsPrimitivePoly(p)}

\* The field instances of degree up to M.
Fields(M) == {GaloisField(p) : p \in PrimitivePolys(M)}

\* Integer operands: the canonical 0..q-1 and MaxInt integers on either side.
Operands(F) == (0 - MaxInt)..(q(F) - 1 + MaxInt)

InitElem ==
    /\ self \in Fields(MaxElemM)
    /\ pc = "idle"
    /\ op = "none"
    /\ args = <<>>
    /\ ret = None
    /\ IdleGF /\ IdleDM /\ IdleCR /\ IdleRM /\ IdleCG /\ IdleIR

Returned(name, arguments, result) ==
    /\ pc = "idle"
    /\ op' = name
    /\ args' = arguments
    /\ ret' = result
    /\ pc' = "done"
    /\ UNCHANGED <<self, gfVars, dmVars, crVars, rmVars, cgVars, ir_idx>>

AddElementsCall ==
    \E a \in Operands(self), b \in Operands(self) :
        Returned("addElements", <<a, b>>, addElements(self, a, b))

MultElementsCall ==
    \E a \in Operands(self), b \in Operands(self) :
        Returned("multElements", <<a, b>>, multElements(self, a, b))

DivElementsCall ==
    \E a \in Operands(self), b \in Operands(self) :
        Returned("divElements", <<a, b>>, divElements(self, a, b))

PowElementCall ==
    \E a \in Operands(self), exponent \in 0..MaxExponent :
        Returned("powElement", <<a, exponent>>, powElement(self, a, exponent))

NextElem == AddElementsCall \/ MultElementsCall \/ DivElementsCall \/ PowElementCall

SpecElem == InitElem /\ [][NextElem]_vars

Canonical(F) == 0..(q(F) - 1)

\* C1: divElements(a, b) with b the zero element fails for every dividend a in
\* [0,q), zero or non-zero; it never returns a field element.
C1_DivByZeroFails ==
    (pc = "done" /\ op = "divElements" /\ args[1] \in Canonical(self) /\ args[2] = 0)
        => ~ret.ok

\* C5: addElements, multElements and powElement (exponent >= 0) return a
\* canonical integer in [0,q) for arbitrary integer operands and never fail,
\* multElements(0, x) is 0, and divElements fails only for the zero divisor.
C5_ElementOpsTotal ==
    /\ (pc = "done" /\ op \in {"addElements", "multElements", "powElement"})
           => (ret.ok /\ ret.val \in Canonical(self))
    /\ (pc = "done" /\ op = "multElements" /\ args[1] = 0) => ret = Ok(0)
    /\ (pc = "done" /\ op = "divElements" /\ ~ret.ok) => args[2] = 0

\* ==================================================== field-polynomial algebra

\* The sequences of length n over the set S.
RECURSIVE SeqsOver(_, _)
SeqsOver(S, n) ==
    IF n = 0 THEN {<<>>}
    ELSE {Append(s, c) : s \in SeqsOver(S, n - 1), c \in S}

\* Coefficient sequences of 1..MaxLen canonical field elements, trimmed or not.
Polys(F) == UNION {SeqsOver(Canonical(F), n) : n \in 1..MaxLen}

InitPoly ==
    /\ self \in Fields(MaxPolyM)
    /\ pc = "idle"
    /\ op = "none"
    /\ args = <<>>
    /\ ret = None
    /\ IdleGF /\ IdleDM /\ IdleCR /\ IdleRM /\ IdleCG /\ IdleIR

AddPolyCall ==
    \E a \in Polys(self), b \in Polys(self) :
        Returned("addPoly", <<a, b>>, addPoly(self, a, b))

MultPolyCall ==
    \E a \in Polys(self), b \in Polys(self) :
        Returned("multPoly", <<a, b>>, multPoly(self, a, b))

\* divmodPoly up to its loop: the assert, then q = np.zeros(0).
DivmodEnter ==
    \E a \in Polys(self), b \in Polys(self) :
        /\ pc = "idle"
        /\ op' = "divmodPoly"
        /\ args' = <<a, b>>
        /\ IF count_nonzero(b) > 0
           THEN /\ pc' = "divmod_while"
                /\ dm_a' = a /\ dm_b' = b /\ dm_q' = <<>>
                /\ dm_caller' = "call"
                /\ ret' = ret
           ELSE /\ pc' = "done"
                /\ ret' = Raise("AssertionError")
                /\ UNCHANGED dmVars
        /\ UNCHANGED <<self, gfVars, crVars, rmVars, cgVars, ir_idx>>

\* One pass of `while degree(a) >= degree(b)`.
DivmodWhile ==
    /\ pc = "divmod_while"
    /\ degree(dm_a) >= degree(dm_b)
    /\ LET r == divmodPass(self, dm_a, dm_b, dm_q)
       IN  IF r.ok
           THEN /\ dm_a' = r.val.a /\ dm_q' = r.val.q
                /\ UNCHANGED <<pc, ret, dm_b, dm_caller>>
           ELSE /\ pc' = "done" /\ ret' = r
                /\ UNCHANGED dmVars
    /\ UNCHANGED <<op, self, args, gfVars, crVars, rmVars, cgVars, ir_idx>>

\* The loop condition fails: remainder = a; return [q, remainder].
DivmodReturn ==
    /\ pc = "divmod_while"
    /\ dm_caller = "call"
    /\ ~(degree(dm_a) >= degree(dm_b))
    /\ ret' = Ok(<<dm_q, dm_a>>)
    /\ pc' = "done"
    /\ UNCHANGED <<op, self, args, gfVars, dmVars, crVars, rmVars, cgVars, ir_idx>>

NextPoly == AddPolyCall \/ MultPolyCall \/ DivmodEnter \/ DivmodWhile \/ DivmodReturn

SpecPoly == InitPoly /\ [][NextPoly]_vars

\* addPoly(multPoly(quotient, b), remainder), or the exception it ends in.
Reconstructed(F, quotient, b, remainder) ==
    LET prod == multPoly(F, quotient, b)
    IN  IF prod.ok THEN addPoly(F, prod.val, remainder) ELSE prod

\* C2: for all a and non-zero b (deg a < deg b and constant b included),
\* divmodPoly(a, b) returns (quotient, remainder) with
\* addPoly(multPoly(quotient, b), remainder) equal to a as a polynomial and
\* degree(remainder) < degree(b).
C2_DivmodReconstructs ==
    (pc = "done" /\ op = "divmodPoly" /\ count_nonzero(args[2]) > 0)
        => /\ ret.ok
           /\ Reconstructed(self, ret.val[1], args[2], ret.val[2]).ok
           /\ Trim(Reconstructed(self, ret.val[1], args[2], ret.val[2]).val) = Trim(args[1])
           /\ degree(ret.val[2]) < degree(args[2])

\* C3: each pass of the loop of divmodPoly strictly lowers degree(a), or makes
\* a the zero polynomial with the loop condition then false, so the loop ends
\* for every non-zero divisor, the non-zero constants included.
C3_DivmodPassLowersDegree ==
    [][(pc = "divmod_while" /\ pc' = "divmod_while")
           => \/ degree(dm_a') < degree(dm_a)
              \/ (count_nonzero(dm_a') = 0 /\ ~(degree(dm_a') >= degree(dm_b')))]_vars

\* A returned polynomial with no high-order zero: at least one coefficient,
\* the last one non-zero unless the polynomial is [0].
Trimmed(poly) == Len(poly) >= 1 /\ (poly[Len(poly)] # 0 \/ poly = <<0>>)

\* C9: every polynomial returned by addPoly, multPoly and divmodPoly (quotient
\* and remainder) is trimmed; addPoly(a, a) is [0] for every a.
C9_ResultsTrimmed ==
    /\ (pc = "done" /\ op \in {"addPoly", "multPoly"} /\ ret.ok) => Trimmed(ret.val)
    /\ (pc = "done" /\ op = "divmodPoly" /\ ret.ok)
           => (Trimmed(ret.val[1]) /\ Trimmed(ret.val[2]))
    /\ (pc = "done" /\ op = "addPoly" /\ args[1] = args[2]) => ret = Ok(<<0>>)

\* ===================================================== root/structure analysis

\* sorted(roots)
sorted(roots) == SortSeq(roots, LAMBDA x, y : x < y)

\* x in list
InList(x, list) == \E k \in 1..Len(list) : list[k] = x

\* list.remove(x): the list without the first occurrence of x.
ListRemove(list, x) ==
    LET k == CHOOSE j \in 1..Len(list) : list[j] = x /\ \A h \in 1..(j - 1) : list[h] # x
    IN  SubSeq(list, 1, k - 1) \o SubSeq(list, k + 1, Len(list))

\* for conjugateRoot in conjugateRoots[1:]:
\*     if conjugateRoot in result: result.remove(conjugateRoot)
RECURSIVE removeEach(_, _)
removeEach(result, conjugateRoots) ==
    IF conjugateRoots = <<>> THEN result
    ELSE LET conjugateRoot == Head(conjugateRoots)
         IN  removeEach(IF InList(conjugateRoot, result)
                        THEN ListRemove(result, conjugateRoot) ELSE result,
                        Tail(conjugateRoots))

\* The roots conjugateRoots is called with: the canonical elements and MaxExtra
\* integers on either side, which element() maps to canonical ones.
RootOperands(F) == (0 - MaxExtra)..(q(F) - 1 + MaxExtra)

\* Lists of up to MaxRoots distinct canonical elements, in any order.
RootLists(F) ==
    {list \in UNION {SeqsOver(Canonical(F), n) : n \in 0..MaxRoots} :
        \A j, k \in 1..Len(list) : j # k => list[j] # list[k]}

InitRoots ==
    /\ self \in Fields(MaxRootM)
    /\ pc = "idle"
    /\ op = "none"
    /\ args = <<>>
    /\ ret = None
    /\ IdleGF /\ IdleDM /\ IdleCR /\ IdleRM /\ IdleCG /\ IdleIR

\* conjugateRoots(root) entered: roots = [], l = 0.
EnterConjugateRoots(root, caller) ==
    /\ cr_root' = root
    /\ cr_l' = 0
    /\ cr_roots' = <<>>
    /\ cr_caller' = caller
    /\ pc' = "cr_while"

ConjugateRootsCall ==
    \E root \in RootOperands(self) :
        /\ pc = "idle"
        /\ op' = "conjugateRoots"
        /\ args' = <<root>>
        /\ EnterConjugateRoots(root, "call")
        /\ UNCHANGED <<self, ret, gfVars, dmVars, rmVars, cgVars, ir_idx>>

\* One pass of `while True` in conjugateRoots; the model follows the loop for
\* m + MaxPass passes.
ConjugateRootsWhile ==
    /\ pc = "cr_while"
    /\ cr_l < m(self) + MaxPass
    /\ LET new_root == powElement(self, cr_root, Pow2(cr_l + 1))
       IN  IF new_root.ok
           THEN /\ cr_l' = cr_l + 1
                /\ cr_roots' = Append(cr_roots, new_root.val)
                /\ pc' = IF new_root.val = cr_root THEN "cr_return" ELSE "cr_while"
                /\ ret' = ret
           ELSE /\ pc' = "done" /\ ret' = new_root
                /\ UNCHANGED <<cr_l, cr_roots>>
    /\ UNCHANGED <<op, self, args, cr_root, cr_caller, gfVars, dmVars, rmVars, cgVars, ir_idx>>

\* return sorted(roots), to the caller of the method.
ConjugateRootsReturn ==
    /\ pc = "cr_return"
    /\ cr_caller = "call"
    /\ ret' = Ok(sorted(cr_roots))
    /\ pc' = "done"
    /\ UNCHANGED <<op, self, args, gfVars, dmVars, crVars, rmVars, cgVars, ir_idx>>

\* removeConjugateRoots(roots): result = roots, one list object.
RemoveConjugateRootsCall ==
    \E roots \in RootLists(self) :
        /\ pc = "idle"
        /\ op' = "removeConjugateRoots"
        /\ args' = <<roots>>
        /\ rm_result' = roots
        /\ rm_idx' = 0
        /\ pc' = "rm_for"
        /\ UNCHANGED <<self, ret, gfVars, dmVars, crVars, cgVars, ir_idx>>

\* `for root in roots`: the list iterator yields the item at its position in
\* the list as it is now, and the body calls conjugateRoots(root).
RemoveFor ==
    /\ pc = "rm_for"
    /\ rm_idx < Len(rm_result)
    /\ rm_idx' = rm_idx + 1
    /\ EnterConjugateRoots(rm_result[rm_idx + 1], "removeConjugateRoots")
    /\ UNCHANGED <<op, self, args, ret, rm_result, gfVars, dmVars, cgVars, ir_idx>>

\* conjugateRoots returned into removeConjugateRoots: strike conjugateRoots[1:].
RemoveStrike ==
    /\ pc = "cr_return"
    /\ cr_caller = "removeConjugateRoots"
    /\ rm_result' = removeEach(rm_result, Tail(sorted(cr_roots)))
    /\ pc' = "rm_for"
    /\ UNCHANGED <<op, self, args, ret, rm_idx, gfVars, dmVars, crVars, cgVars, ir_idx>>

\* The iterator is exhausted: return result.
RemoveReturn ==
    /\ pc = "rm_for"
    /\ ~(rm_idx < Len(rm_result))
    /\ ret' = Ok(rm_result)
    /\ pc' = "done"
    /\ UNCHANGED <<op, self, args, gfVars, dmVars, crVars, rmVars, cgVars, ir_idx>>

\* conjugateRootGroups(): groups = [[0]].
ConjugateRootGroupsCall ==
    /\ pc = "idle"
    /\ op' = "conjugateRootGroups"
    /\ args' = <<>>
    /\ cg_groups' = << <<0>> >>
    /\ cg_i' = 0
    /\ pc' = "cg_for"
    /\ UNCHANGED <<self, ret, gfVars, dmVars, crVars, rmVars, ir_idx>>

\* for i in range(0, 2**m-1): group = self.conjugateRoots(i)
GroupsFor ==
    /\ pc = "cg_for"
    /\ cg_i < Pow2(m(self)) - 1
    /\ EnterConjugateRoots(cg_i, "conjugateRootGroups")
    /\ UNCHANGED <<op, self, args, ret, gfVars, dmVars, rmVars, cgVars, ir_idx>>

\* conjugateRoots returned into conjugateRootGroups:
\* if group not in groups: groups.append(group)
GroupsAppend ==
    /\ pc = "cr_return"
    /\ cr_caller = "conjugateRootGroups"
    /\ LET group == sorted(cr_roots)
       IN  cg_groups' = IF InList(group, cg_groups) THEN cg_groups
                        ELSE Append(cg_groups, group)
    /\ cg_i' = cg_i + 1
    /\ pc' = "cg_for"
    /\ UNCHANGED <<op, self, args, ret, gfVars, dmVars, crVars, rmVars, ir_idx>>

\* The range is exhausted: return groups.
GroupsReturn ==
    /\ pc = "cg_for"
    /\ ~(cg_i < Pow2(m(self)) - 1)
    /\ ret' = Ok(cg_groups)
    /\ pc' = "done"
    /\ UNCHANGED <<op, self, args, gfVars, dmVars, crVars, rmVars, cgVars, ir_idx>>

NextRoots ==
    \/ ConjugateRootsCall \/ ConjugateRootsWhile \/ ConjugateRootsReturn
    \/ RemoveConjugateRootsCall \/ RemoveFor \/ RemoveStrike \/ RemoveReturn
    \/ ConjugateRootGroupsCall \/ GroupsFor \/ GroupsAppend \/ GroupsReturn

SpecRoots == InitRoots /\ [][NextRoots]_vars

\* The conjugate orbit of a canonical element x: x^(2^k), k = 0..m-1.
Orbit(F, x) == {powElement(F, x, Pow2(k)).val : k \in 0..(m(F) - 1)}

Ascending(list) == \A k \in 1..(Len(list) - 1) : list[k] < list[k + 1]

\* C6: conjugateRootGroups() returns a partition of the field on every field
\* instance, GF(2) included: every element 0..q-1 is in exactly one group, no
\* group is listed twice, each group ascends and its size divides m.
C6_GroupsPartitionField ==
    (pc = "done" /\ op = "conjugateRootGroups")
        => /\ ret.ok
           /\ \A x \in Canonical(self) :
                  Cardinality({g \in 1..Len(ret.val) : InList(x, ret.val[g])}) = 1
           /\ \A g, h \in 1..Len(ret.val) : g # h => ret.val[g] # ret.val[h]
           /\ \A g \in 1..Len(ret.val) :
                  /\ Ascending(ret.val[g])
                  /\ Len(ret.val[g]) >= 1
                  /\ m(self) % Len(ret.val[g]) = 0

\* C7: removeConjugateRoots(roots) returns exactly one element of every
\* conjugate orbit that has a member in roots, and nothing that was not in
\* roots, whether or not roots holds the smallest member of an orbit.
C7_OnePerOrbit ==
    (pc = "done" /\ op = "removeConjugateRoots")
        => /\ ret.ok
           /\ \A k \in 1..Len(args[1]) :
                  Cardinality({j \in 1..Len(ret.val) :
                                  ret.val[j] \in Orbit(self, args[1][k])}) = 1
           /\ \A j \in 1..Len(ret.val) : InList(ret.val[j], args[1])

\* C10: conjugateRoots(root) ends for every integer root, canonical or not:
\* the loop reaches new_root == root within m passes.
C10_OrbitClosesWithinM ==
    (op = "conjugateRoots" /\ pc \in {"cr_while", "cr_return"})
        => /\ cr_l <= m(self)
           /\ (cr_l = m(self) => pc = "cr_return")

\* ================================================================ irreducible

\* The 0/1 polynomials irreducible() is called with: degree 1..MaxIrrLen-1.
IrrPolys == UNION {BinPolysOfDegree(d) : d \in 1..(MaxIrrLen - 1)}

InitIrr ==
    /\ self \in Fields(MaxIrrM)
    /\ pc = "idle"
    /\ op = "none"
    /\ args = <<>>
    /\ ret = None
    /\ IdleGF /\ IdleDM /\ IdleCR /\ IdleRM /\ IdleCG /\ IdleIR

\* irreducible(p) entered: m = self.m(), irreducible = True.
IrreducibleCall ==
    \E p \in IrrPolys :
        /\ pc = "idle"
        /\ op' = "irreducible"
        /\ args' = <<p>>
        /\ ir_idx' = 0
        /\ pc' = "ir_for"
        /\ UNCHANGED <<self, ret, gfVars, dmVars, crVars, rmVars, cgVars>>

\* One pass of `for factorPoly in self.elementsAsPoly()`: skip a factorPoly
\* whose degree is not strictly between 0 and m; otherwise isFactor(p,
\* factorPoly) calls modPoly, which calls divmodPoly(p, factorPoly).
IrreducibleFor ==
    /\ pc = "ir_for"
    /\ ir_idx < Len(elementsAsPoly(self))
    /\ ir_idx' = ir_idx + 1
    /\ LET factorPoly == elementsAsPoly(self)[ir_idx + 1]
       IN  IF ~(0 < degree(factorPoly) /\ degree(factorPoly) < m(self))
           THEN UNCHANGED <<pc, ret, dmVars>>
           ELSE IF count_nonzero(factorPoly) > 0
           THEN /\ pc' = "divmod_while"
                /\ dm_a' = args[1] /\ dm_b' = factorPoly /\ dm_q' = <<>>
                /\ dm_caller' = "isFactor"
                /\ ret' = ret
           ELSE /\ pc' = "done"
                /\ ret' = Raise("AssertionError")
                /\ UNCHANGED dmVars
    /\ UNCHANGED <<op, self, args, gfVars, crVars, rmVars, cgVars>>

\* divmodPoly returned into isFactor: np.count_nonzero(remainder) == 0, and
\* irreducible returns False on a factor.
IsFactorReturn ==
    /\ pc = "divmod_while"
    /\ dm_caller = "isFactor"
    /\ ~(degree(dm_a) >= degree(dm_b))
    /\ IF count_nonzero(dm_a) = 0
       THEN pc' = "done" /\ ret' = Ok(FALSE)
       ELSE pc' = "ir_for" /\ ret' = ret
    /\ UNCHANGED <<op, self, args, ir_idx, gfVars, dmVars, crVars, rmVars, cgVars>>

\* The table is exhausted: return irreducible (still True).
IrreducibleReturn ==
    /\ pc = "ir_for"
    /\ ~(ir_idx < Len(elementsAsPoly(self)))
    /\ ret' = Ok(TRUE)
    /\ pc' = "done"
    /\ UNCHANGED <<op, self, args, ir_idx, gfVars, dmVars, crVars, rmVars, cgVars>>

NextIrr ==
    \/ IrreducibleCall \/ IrreducibleFor \/ DivmodWhile \/ IsFactorReturn
    \/ IrreducibleReturn

SpecIrr == InitIrr /\ [][NextIrr]_vars

\* C8: on every field instance, the default GF(2) included, irreducible(p) for
\* a 0/1 polynomial p is true exactly when p has no divisor over GF(2) of degree
\* strictly between 0 and degree(p); so [1,1,1] gives true and [1,0,1] false.
C8_IrreducibleExact ==
    (pc = "done" /\ op = "irreducible")
        => /\ ret.ok
           /\ ret.val = IsIrreduciblePoly(args[1])

====
